---- MODULE Spec2Model ----
(***************************************************************************)
(* A model of electron-notify's main-process scheduler (src/index.js):     *)
(* the AnimationQueue serializer, the notify / showNotification /          *)
(* close / closeAll lifecycle, slot geometry and the shift-down animation. *)
(*                                                                         *)
(* JavaScript runs on one thread.  A step of the model is one run of       *)
(* synchronous code: an API call of the host application, a promise        *)
(* reaction (microtask) or an event handler (timer, did-finish-load, ipc,  *)
(* closed).  Microtasks run before the next event is dispatched, so event  *)
(* handlers are disabled while a reaction of the AnimationQueue is         *)
(* pending; API calls are not, because the host can make several calls in  *)
(* one synchronous block (notify(a); notify(b); closeAll()) and can call   *)
(* from its own promise reactions.                                         *)
(*                                                                         *)
(* A notification and the BrowserWindow created for it are named by the    *)
(* notification id.  Sequences are 1-based; slot indices are 0-based as in *)
(* the source.                                                             *)
(***************************************************************************)
EXTENDS Integers, Sequences, FiniteSets

\* ---------------------------------------------------------------- bounds
\* notify is called at most MaxNotify times in a run of Spec and of
\* SpecDisplayTime, at most MaxNotifyTraffic times in a run of SpecTraffic
\* and at most MaxNotifyLive times in a run of SpecLive.
MaxNotify == 3
MaxNotifyTraffic == 4
MaxNotifyLive == 3

\* setConfig is called at most MaxSetConfig times in a run.
MaxSetConfig == 1

\* The event loop serves the animation timers every PeriodsPerTick timer
\* periods (setTimeout fires no earlier than asked, and may fire later).
PeriodsPerTick == 4

\* ---------------------------------------------------- program constants
DefaultWidth == 352
DefaultHeight == 78
DefaultPadding == 10
DefaultAnimationSpeed == 700
DefaultAnimationFps == 60
DefaultDisplayTime == 6000
MaxVisibleCap == 7
FirstID == 1

\* null of nextInsertPos.x / nextInsertPos.y (src/index.js:87-89, 377-378);
\* also stands for a property the notification object does not have
Null == -1

\* Inputs: the primary display's work area (origin 0,0) and the slot heights
\* the host passes to setConfig.  47 + 10 = 57 is a slot height whose
\* reflow distance is rounded down by the animation's arithmetic.
DisplayWidths == {1000}
DisplayHeights == {100, 180}
TrafficDisplayHeights == {100, 180, 270}
Heights == {DefaultHeight, 47}

\* the slot heights setConfig is called with during a run: a call that
\* changes the height
NewHeights == Heights \ {DefaultHeight}

\* displayTime as the host passes it to setConfig, and as a notification
\* carries it: absent, 0 or a duration in ms
ConfigDisplayTimes == {DefaultDisplayTime, 100}
PayloadDisplayTimes == {Null, 0, 50}

Ids == FirstID .. (IF MaxNotify > MaxNotifyTraffic THEN MaxNotify ELSE MaxNotifyTraffic)

VARIABLES
  config,               \* height, totalHeight, totalWidth, lowerRightCorner, maxVisibleNotifications
  nextInsertPos,        \* [x, y], Null after closeAll
  activeNotifications,  \* sequence of window ids, index 0 first
  notificationQueue,    \* sequence of notification ids waiting for a slot
  queue,                \* animationQueue.queue: tasks not yet started
  running,              \* animationQueue.running
  tasks,                \* tasks whose promise chain has not settled
  latestID,             \* next id notify hands out
  win,                  \* window of each notification: [st, x, y]
  timers,               \* ids whose dismiss timer is armed
  anims,                \* running moveNotificationAnimation loops, in timer order
  notifications,        \* displayTime of each notification object, Null when absent
  timeoutMs,            \* the delay each dismiss timer was armed with
  onCloseCalls,         \* how many times onCloseFunc of each notification was called
  lastEvent,            \* the event onCloseFunc was called with in the last step
  returned,             \* history: the ids notify returned, in call order
  pushed,               \* history: number of AnimationQueue.push calls
  queuedOnce,           \* history: ids that have entered notificationQueue
  closedAll,            \* history: the last closeAll() found no task in flight
  survivors,            \* history: ids of the tasks in flight at the last closeAll()
  setConfigs            \* history: number of setConfig calls

vars == <<config, nextInsertPos, activeNotifications, notificationQueue,
          queue, running, tasks, latestID, win, timers, anims, notifications,
          timeoutMs, onCloseCalls, lastEvent, returned, pushed, queuedOnce,
          closedAll, survivors, setConfigs>>

\* ---------------------------------------------------------------- helpers
Range(s) == {s[i] : i \in 1 .. Len(s)}

\* Array.prototype.indexOf, 0-based, -1 when absent
IndexOf(s, x) ==
  IF x \in Range(s) THEN (CHOOSE i \in 1 .. Len(s) : s[i] = x) - 1 ELSE -1

\* Array.prototype.splice(pos, 1), pos 0-based
Splice(s, pos) == [i \in 1 .. Len(s) - 1 |-> IF i <= pos THEN s[i] ELSE s[i + 1]]

Min(a, b) == IF a < b THEN a ELSE b
Abs(a) == IF a < 0 THEN -a ELSE a

\* a faulty lookup that still finds a destroyed window
LiveOnceCreated(n) == win[n].st # "none"

\* BrowserWindow.fromId(winId): null once the window is destroyed
Live(n) == win[n].st \in {"loading", "orphan", "tracked", "visible", "closing"}

\* ------------------------------------------------------------- geometry
\* calcDimensions: totalHeight, totalWidth (firstPos is FirstPos below)
CalcDimensions(cfg) ==
  [cfg EXCEPT !.totalHeight = cfg.height + cfg.padding,
              !.totalWidth = cfg.width + cfg.padding]

\* config.firstPos
FirstPos(cfg) ==
  [x |-> cfg.lowerRightCorner.x - cfg.totalWidth,
   y |-> cfg.lowerRightCorner.y - cfg.totalHeight]

\* Math.floor(workAreaSize.height / totalHeight), at most 7
MaxVisible(displayHeight, totalHeight) ==
  Min(MaxVisibleCap, displayHeight \div totalHeight)

\* setupConfig on a display whose work area starts at (0, 0)
SetupConfig(displayWidth, displayHeight) ==
  LET base == [width |-> DefaultWidth, height |-> DefaultHeight,
               padding |-> DefaultPadding,
               displayTime |-> DefaultDisplayTime,
               animationSpeed |-> DefaultAnimationSpeed,
               animationFps |-> DefaultAnimationFps,
               totalHeight |-> 0, totalWidth |-> 0,
               lowerRightCorner |-> [x |-> displayWidth, y |-> displayHeight],
               maxVisibleNotifications |-> 0]
      dims == CalcDimensions(base)
  IN  [dims EXCEPT !.maxVisibleNotifications =
                      MaxVisible(displayHeight, dims.totalHeight)]

\* setConfig({height: h}): Object.assign, then calcDimensions; the cap is
\* not recomputed
SetConfigHeight(cfg, h) == CalcDimensions([cfg EXCEPT !.height = h])

\* setConfig({displayTime: d})
SetConfigDisplayTime(cfg, d) == CalcDimensions([cfg EXCEPT !.displayTime = d])

\* the y coordinate of slot i (0-based): lines 304 and 337
SlotY(cfg, i) == cfg.lowerRightCorner.y - cfg.totalHeight * (i + 1)

\* calcInsertPos
CalcInsertPos(pos, len, cfg) ==
  IF len < cfg.maxVisibleNotifications
  THEN [pos EXCEPT !.y = SlotY(cfg, len)]
  ELSE pos

\* ----------------------------------------------------------- serializer
\* A task is [ticket, id]: showNotification for notification id, the
\* ticket-th object handed to push.  In flight it also carries pc:
\*   "start"   animate was called, func has not run yet (first reaction)
\*   "loading" func runs: getWindow waits for did-finish-load
\*   "done"    func's promise is fulfilled, the completion reaction is due
InFlight(obj, pc) == [ticket |-> obj.ticket, id |-> obj.id, pc |-> pc]

\* a faulty animate that calls func before it returns
AnimateEagerly(ser, obj) == [ser EXCEPT !.tasks = @ \cup {InFlight(obj, "loading")}]

\* AnimationQueue.prototype.animate: schedules the promise chain
Animate(ser, obj) == [ser EXCEPT !.tasks = @ \cup {InFlight(obj, "start")}]

\* a faulty push that ignores the running flag
PushAlwaysAnimate(ser, obj) == Animate([ser EXCEPT !.running = TRUE], obj)

\* AnimationQueue.prototype.push, on ser = [queue, running, tasks]
Push(ser, obj) ==
  IF ser.running
  THEN [ser EXCEPT !.queue = Append(@, obj)]
  ELSE Animate([ser EXCEPT !.running = TRUE], obj)

\* the object queue.shift() takes, and what it leaves
Shift(q) == Head(q)

ShiftRest(q) == Tail(q)

\* a faulty completion reaction that never starts the waiting task
CompleteForgetsNext(ser, t) == [ser EXCEPT !.tasks = @ \ {t}]

\* the completion reaction of animate (lines 29-35)
Complete(ser, t) ==
  LET rest == [ser EXCEPT !.tasks = @ \ {t}]
  IN  IF Len(ser.queue) > 0
      THEN Animate([rest EXCEPT !.queue = ShiftRest(@)], Shift(ser.queue))
      ELSE [rest EXCEPT !.running = FALSE]

\* a rejected func skips the completion reaction; catch only logs (36-38)
Reject(ser, t) == [ser EXCEPT !.tasks = @ \ {t}]

\* AnimationQueue.prototype.clear
Clear(ser) == [ser EXCEPT !.queue = <<>>]

Ser == [queue |-> queue, running |-> running, tasks |-> tasks]

SetSer(ser) ==
  /\ queue' = ser.queue
  /\ running' = ser.running
  /\ tasks' = ser.tasks

\* a promise reaction of the AnimationQueue is pending
MicrotaskPending == \E t \in tasks : t.pc \in {"start", "done"}

\* ------------------------------------------------------------ lifecycle
\* a faulty increment that skips an id
NextIDSkipping(latest) == latest + 2

\* notify: notification.id = latestID++
NextID(latest) == latest + 1

\* a faulty capacity test that admits one notification too many
CanShowAtCap(len, cfg) == len <= cfg.maxVisibleNotifications

\* showNotification's "Can we show it?"
CanShow(len, cfg) == len < cfg.maxVisibleNotifications

\* a faulty choice that ignores config.displayTime
DisplayTimeBuiltIn(own, cfg) ==
  IF own # Null /\ own # 0 THEN own ELSE DefaultDisplayTime

\* line 173: notificationObj.displayTime ? notificationObj.displayTime :
\* config.displayTime; an absent displayTime and 0 are both falsy
DisplayTime(own, cfg) ==
  IF own # Null /\ own # 0 THEN own ELSE cfg.displayTime

\* a faulty promotion that leaves the head in notificationQueue
CheckForQueuedKeepsHead(st, cfg) ==
  IF Len(st.pending) > 0 /\ Len(st.active) < cfg.maxVisibleNotifications
  THEN [st EXCEPT !.ser = Push(@, [ticket |-> st.pushed + 1,
                                   id |-> Head(st.pending)]),
                  !.pushed = @ + 1]
  ELSE st

\* checkForQueuedNotifications on st = [active, pending, ser, pushed]
CheckForQueuedNotifications(st, cfg) ==
  IF Len(st.pending) > 0 /\ Len(st.active) < cfg.maxVisibleNotifications
  THEN [st EXCEPT !.ser = Push(@, [ticket |-> st.pushed + 1,
                                   id |-> Head(st.pending)]),
                  !.pending = Tail(@),
                  !.pushed = @ + 1]
  ELSE st

\* Math.trunc(delta / 100 * 100) in IEEE-754 doubles: delta / 100 * 100 is
\* just below delta for these delta in 0 .. 399 (57 / 100 * 100 is
\* 56.99999999999999), so the truncation loses one pixel.
RoundedDown == {29, 57, 58, 113, 114, 115, 116, 201, 203, 205, 207,
                226, 228, 230, 232, 251, 253, 255}

TruncAtFull(delta) == IF delta \in RoundedDown THEN delta - 1 ELSE delta

\* moveNotificationAnimation(winId, i) up to its first timer: the loops it
\* starts (none when the window is gone or timeDelta is 0).  Time is counted
\* in timer periods of 1000 / animationFps ms; elapsed is the number of
\* periods since startTime.
MoveNotificationAnimation(n, i, cfg) ==
  LET posY == win[n].y
      newPosY == SlotY(cfg, i)
      delta == Abs(newPosY - posY)
  IN  IF ~Live(n) \/ delta = 0 \/ cfg.animationSpeed = 0
      THEN <<>>
      ELSE <<[win |-> n, posX |-> win[n].x, posY |-> posY, delta |-> delta,
              direction |-> IF newPosY > posY THEN 1 ELSE -1,
              elapsed |-> 0]>>

\* moveOneDown's guard: "startPos >= activeNotifications" compares a number
\* with an array, which converts to 0 when empty and to NaN otherwise
MoveOneDownReturns(startPos, active) ==
  (active = <<>> /\ startPos >= 0) \/ startPos = -1

RECURSIVE MoveFrom(_, _, _)
MoveFrom(i, active, cfg) ==
  IF i >= Len(active)
  THEN <<>>
  ELSE MoveNotificationAnimation(active[i + 1], i, cfg)
         \o MoveFrom(i + 1, active, cfg)

\* moveOneDown(startPos): the animation loops it starts
MoveOneDown(startPos, active, cfg) ==
  IF MoveOneDownReturns(startPos, active) THEN <<>>
  ELSE MoveFrom(startPos, active, cfg)

\* the loops as started by the 'closed' event of window n
TriggeredBy(as, n) ==
  [k \in 1 .. Len(as) |->
     [win |-> as[k].win, posX |-> as[k].posX, posY |-> as[k].posY,
      delta |-> as[k].delta, direction |-> as[k].direction,
      elapsed |-> as[k].elapsed, by |-> n]]

\* A loop whose window is destroyed does nothing more (lines 314-315): it
\* leaves the list when window n is destroyed.
StillMoving(as, n) == SelectSeq(as, LAMBDA a : a.win # n)

\* the window's 'closed' handler (lines 163-170), n being destroyed
ClosedHandler(n) ==
  LET pos == IndexOf(activeNotifications, n)
      st == CheckForQueuedNotifications(
              [active |-> Splice(activeNotifications, pos),
               pending |-> notificationQueue, ser |-> Ser, pushed |-> pushed],
              config)
  IN  IF pos # -1
      THEN /\ activeNotifications' = st.active
           /\ notificationQueue' = st.pending
           /\ SetSer(st.ser)
           /\ pushed' = st.pushed
           /\ anims' = StillMoving(anims, n)
                         \o TriggeredBy(MoveOneDown(pos, st.active, config), n)
      ELSE /\ anims' = StillMoving(anims, n)
           /\ UNCHANGED <<activeNotifications, notificationQueue, queue,
                          running, tasks, pushed>>

\* the function buildCloseNotification returns, called with event: when the
\* window still exists, call onCloseFunc, then hide and destroy the window;
\* destroy emits 'closed'.  tmLive is the timer set when the window exists
\* (after clearTimeout, if any), tmGone otherwise.
CloseNotification(n, event, tmLive, tmGone) ==
  IF Live(n)
  THEN /\ onCloseCalls' = [onCloseCalls EXCEPT ![n] = @ + 1]
       /\ lastEvent' = event
       /\ win' = [win EXCEPT ![n].st = "destroyed"]
       /\ timers' = tmLive
       /\ ClosedHandler(n)
  ELSE /\ timers' = tmGone
       /\ lastEvent' = "none"
       /\ UNCHANGED <<win, activeNotifications, notificationQueue, queue,
                      running, tasks, pushed, anims, onCloseCalls>>

\* ----------------------------------------------------------------- Init
NoWindow == [st |-> "none", x |-> Null, y |-> Null]

\* the module after require(): setupConfig has run, nothing is shown
InitWith(cfg) ==
  /\ config = cfg
  /\ nextInsertPos = FirstPos(cfg)
  /\ activeNotifications = <<>>
  /\ notificationQueue = <<>>
  /\ queue = <<>>
  /\ running = FALSE
  /\ tasks = {}
  /\ latestID = FirstID
  /\ win = [n \in Ids |-> NoWindow]
  /\ timers = {}
  /\ anims = <<>>
  /\ notifications = [n \in Ids |-> Null]
  /\ timeoutMs = [n \in Ids |-> Null]
  /\ onCloseCalls = [n \in Ids |-> 0]
  /\ lastEvent = "none"
  /\ returned = <<>>
  /\ pushed = 0
  /\ queuedOnce = {}
  /\ closedAll = FALSE
  /\ survivors = {}
  /\ setConfigs = 0

Init ==
  \E w \in DisplayWidths, h \in DisplayHeights : InitWith(SetupConfig(w, h))

\* -------------------------------------------------------------- actions
\* notify(notification), called at most max times, for a notification
\* object whose displayTime is own
NotifyPayload(max, own) ==
  /\ latestID <= max
  /\ latestID' = NextID(latestID)
  /\ notifications' = [notifications EXCEPT ![latestID] = own]
  /\ returned' = Append(returned, latestID)
  /\ SetSer(Push(Ser, [ticket |-> pushed + 1, id |-> latestID]))
  /\ pushed' = pushed + 1
  /\ lastEvent' = "none"
  /\ UNCHANGED <<config, nextInsertPos, activeNotifications,
                 notificationQueue, win, timers, anims, timeoutMs,
                 onCloseCalls, queuedOnce, closedAll, survivors, setConfigs>>

\* notify of a notification object without displayTime
Notify(max) == NotifyPayload(max, Null)

\* the first reaction of animate calls showNotification (lines 27-28,
\* 151-155, 209-211): getWindow creates the window, or the notification is
\* queued and func returns
TaskStart(t) ==
  /\ t.pc = "start"
  /\ IF CanShow(Len(activeNotifications), config)
     THEN /\ win' = [win EXCEPT ![t.id].st = "loading"]
          /\ tasks' = (tasks \ {t}) \cup {[t EXCEPT !.pc = "loading"]}
          /\ UNCHANGED <<notificationQueue, queuedOnce>>
     ELSE /\ notificationQueue' = Append(notificationQueue, t.id)
          /\ queuedOnce' = queuedOnce \cup {t.id}
          /\ tasks' = (tasks \ {t}) \cup {[t EXCEPT !.pc = "done"]}
          /\ UNCHANGED win
  /\ lastEvent' = "none"
  /\ UNCHANGED <<config, nextInsertPos, activeNotifications, queue, running,
                 latestID, timers, anims, notifications, timeoutMs,
                 onCloseCalls, returned, pushed, closedAll, survivors,
                 setConfigs>>

\* did-finish-load resolves getWindow and the callback of lines 155-208
\* runs.  setPosition throws a TypeError for a null coordinate, before the
\* window is tracked; onShowFunc is host code and may throw, after the
\* window is tracked and its timer armed but before it is shown.
LoadFinished(t, onShowThrows) ==
  /\ ~MicrotaskPending
  /\ t.pc = "loading"
  /\ LET pos == CalcInsertPos(nextInsertPos, Len(activeNotifications), config)
     IN  /\ nextInsertPos' = pos
         /\ IF pos.x = Null \/ pos.y = Null
            THEN /\ win' = [win EXCEPT ![t.id].st = "orphan"]
                 /\ SetSer(Reject(Ser, t))
                 /\ UNCHANGED <<activeNotifications, timers, timeoutMs>>
            ELSE /\ activeNotifications' = Append(activeNotifications, t.id)
                 /\ timers' = timers \cup {t.id}
                 /\ timeoutMs' = [timeoutMs EXCEPT ![t.id] =
                                    DisplayTime(notifications[t.id], config)]
                 /\ win' = [win EXCEPT ![t.id] =
                              [st |-> IF onShowThrows THEN "tracked" ELSE "visible",
                               x |-> pos.x, y |-> pos.y]]
                 /\ IF onShowThrows
                    THEN SetSer(Reject(Ser, t))
                    ELSE /\ tasks' = (tasks \ {t}) \cup {[t EXCEPT !.pc = "done"]}
                         /\ UNCHANGED <<queue, running>>
  /\ lastEvent' = "none"
  /\ UNCHANGED <<config, notificationQueue, latestID, anims, notifications,
                 onCloseCalls, returned, pushed, queuedOnce, closedAll,
                 survivors, setConfigs>>

\* the completion reaction of animate (lines 29-35)
Settle(t) ==
  /\ t.pc = "done"
  /\ SetSer(Complete(Ser, t))
  /\ lastEvent' = "none"
  /\ UNCHANGED <<config, nextInsertPos, activeNotifications,
                 notificationQueue, latestID, win, timers, anims,
                 notifications, timeoutMs, onCloseCalls, returned, pushed,
                 queuedOnce, closedAll, survivors, setConfigs>>

\* the dismiss timer fires: closeFunc('timeout') (lines 180-182)
Timeout(n) ==
  /\ ~MicrotaskPending
  /\ n \in timers
  /\ CloseNotification(n, "timeout", timers \ {n}, timers \ {n})
  /\ UNCHANGED <<config, nextInsertPos, latestID, notifications, timeoutMs,
                 returned, queuedOnce, closedAll, survivors, setConfigs>>

\* the host calls the closeNotification function onShowFunc received
\* (lines 177-190); calls made from inside the window's own onShowFunc are
\* not modelled
ApiClose(n) ==
  /\ win[n].st \in {"tracked", "visible", "closing", "destroyed"}
  /\ \A t \in tasks : t.id # n
  /\ CloseNotification(n, "closedByAPI", timers \ {n}, timers)
  /\ UNCHANGED <<config, nextInsertPos, latestID, notifications, timeoutMs,
                 returned, queuedOnce, closedAll, survivors, setConfigs>>

\* the user closes the notification: ipc 'electron-notify-close' (240-243);
\* this close function has no getTimeoutId
IpcClose(n) ==
  /\ ~MicrotaskPending
  /\ win[n].st = "visible"
  /\ CloseNotification(n, "close", timers, timers)
  /\ UNCHANGED <<config, nextInsertPos, latestID, notifications, timeoutMs,
                 returned, queuedOnce, closedAll, survivors, setConfigs>>

\* the user clicks the notification: ipc 'electron-notify-click' (245-258)
\* calls onClickFunc with a close function that has no getTimeoutId; closes
\* tells whether the host's onClickFunc calls it
IpcClick(n, closes) ==
  /\ ~MicrotaskPending
  /\ win[n].st = "visible"
  /\ IF closes
     THEN CloseNotification(n, "closedByAPI", timers, timers)
     ELSE /\ lastEvent' = "none"
          /\ UNCHANGED <<win, timers, activeNotifications, notificationQueue,
                         queue, running, tasks, pushed, anims, onCloseCalls>>
  /\ UNCHANGED <<config, nextInsertPos, latestID, notifications, timeoutMs,
                 returned, queuedOnce, closedAll, survivors, setConfigs>>

\* 'closed' of a window closeAll asked to close: window.close() closes the
\* window in a later turn of the event loop
WindowClosed(n) ==
  /\ ~MicrotaskPending
  /\ win[n].st = "closing"
  /\ win' = [win EXCEPT ![n].st = "destroyed"]
  /\ ClosedHandler(n)
  /\ lastEvent' = "none"
  /\ UNCHANGED <<config, nextInsertPos, latestID, timers, notifications,
                 timeoutMs, onCloseCalls, returned, queuedOnce, closedAll,
                 survivors, setConfigs>>

\* closeAll()
CloseAll ==
  /\ SetSer(Clear(Ser))
  /\ win' = [n \in Ids |->
               IF n \in Range(activeNotifications)
               THEN [win[n] EXCEPT !.st = "closing"] ELSE win[n]]
  /\ nextInsertPos' = [x |-> Null, y |-> Null]
  /\ activeNotifications' = <<>>
  /\ closedAll' = (tasks = {})
  /\ survivors' = {t.id : t \in tasks}
  /\ lastEvent' = "none"
  /\ UNCHANGED <<setConfigs, config, notificationQueue, latestID, timers,
                 anims, notifications, timeoutMs, onCloseCalls, returned,
                 pushed, queuedOnce>>

\* setConfig({height: h})
SetConfig(h) ==
  /\ setConfigs < MaxSetConfig
  /\ setConfigs' = setConfigs + 1
  /\ config' = SetConfigHeight(config, h)
  /\ nextInsertPos' = FirstPos(config')
  /\ lastEvent' = "none"
  /\ UNCHANGED <<activeNotifications, notificationQueue, queue, running,
                 tasks, latestID, win, timers, anims, notifications,
                 timeoutMs, onCloseCalls, returned, pushed, queuedOnce,
                 closedAll, survivors>>

\* setConfig({displayTime: d})
SetDisplayTime(d) ==
  /\ setConfigs < MaxSetConfig
  /\ setConfigs' = setConfigs + 1
  /\ config' = SetConfigDisplayTime(config, d)
  /\ nextInsertPos' = FirstPos(config')
  /\ lastEvent' = "none"
  /\ UNCHANGED <<activeNotifications, notificationQueue, queue, running,
                 tasks, latestID, win, timers, anims, notifications,
                 timeoutMs, onCloseCalls, returned, pushed, queuedOnce,
                 closedAll, survivors>>

\* percents >= 100 after elapsed periods: 100 / timeDelta * (now - startTime)
\* with timeDelta = delta / animationSpeed * 1000
AtFull(a, cfg) == a.elapsed * cfg.animationSpeed >= a.delta * cfg.animationFps

\* deltaPosY = Math.trunc(delta / 100 * percents), percents capped at 100
DeltaPosY(a, cfg) ==
  IF AtFull(a, cfg)
  THEN TruncAtFull(a.delta)
  ELSE (a.elapsed * cfg.animationSpeed) \div cfg.animationFps

\* one run of "next" (lines 313-328) of loop a on windows w: the windows
\* after it, and the loop again if it set another timer
NextStep(a, w, cfg) ==
  IF w[a.win].st = "destroyed"
  THEN [win |-> w, again |-> <<>>]
  ELSE [win |-> IF DeltaPosY(a, cfg) > 0
                THEN [w EXCEPT ![a.win].x = a.posX,
                               ![a.win].y = a.posY + DeltaPosY(a, cfg) * a.direction]
                ELSE w,
        again |-> IF AtFull(a, cfg) THEN <<>> ELSE <<a>>]

RECURSIVE RunTimers(_, _, _)
RunTimers(as, w, cfg) ==
  IF as = <<>>
  THEN [win |-> w, anims |-> <<>>]
  ELSE LET one == NextStep([Head(as) EXCEPT !.elapsed = @ + PeriodsPerTick], w, cfg)
           others == RunTimers(Tail(as), one.win, cfg)
       IN  [win |-> others.win, anims |-> one.again \o others.anims]

\* PeriodsPerTick timer periods pass: the setTimeout of every animation loop
\* (line 326) has expired and the loops run back to back, in the order their
\* timers were set
Tick ==
  /\ ~MicrotaskPending
  /\ anims # <<>>
  /\ LET r == RunTimers(anims, win, config)
     IN  /\ win' = r.win
         /\ anims' = r.anims
  /\ lastEvent' = "none"
  /\ UNCHANGED <<config, nextInsertPos, activeNotifications,
                 notificationQueue, queue, running, tasks, latestID, timers,
                 notifications, timeoutMs, onCloseCalls, returned, pushed,
                 queuedOnce, closedAll, survivors, setConfigs>>

\* ------------------------------------------------------- specifications
Next ==
  \/ Notify(MaxNotify)
  \/ \E t \in tasks : TaskStart(t)
  \/ \E t \in tasks, onShowThrows \in BOOLEAN : LoadFinished(t, onShowThrows)
  \/ \E t \in tasks : Settle(t)
  \/ \E n \in Ids : Timeout(n)
  \/ \E n \in Ids : ApiClose(n)
  \/ \E n \in Ids : IpcClose(n)
  \/ \E n \in Ids, closes \in BOOLEAN : IpcClick(n, closes)
  \/ \E n \in Ids : WindowClosed(n)
  \/ CloseAll
  \/ \E h \in NewHeights : SetConfig(h)
  \/ Tick

Spec == Init /\ [][Next]_vars

\* The host configures the slot height once, before the first notify, and
\* then only notifies and closes; no callback throws.
InitTraffic ==
  \E w \in DisplayWidths, dh \in TrafficDisplayHeights, h \in Heights :
    InitWith(SetConfigHeight(SetupConfig(w, dh), h))

NextTraffic ==
  \/ Notify(MaxNotifyTraffic)
  \/ \E t \in tasks : TaskStart(t)
  \/ \E t \in tasks : LoadFinished(t, FALSE)
  \/ \E t \in tasks : Settle(t)
  \/ \E n \in Ids : Timeout(n)
  \/ \E n \in Ids : ApiClose(n)
  \/ \E n \in Ids : IpcClose(n)
  \/ \E n \in Ids, closes \in BOOLEAN : IpcClick(n, closes)
  \/ Tick

SpecTraffic == InitTraffic /\ [][NextTraffic]_vars

\* The traffic of SpecTraffic with the scheduling of the event loop: a
\* pending promise reaction runs, a window that was created finishes
\* loading, and a timer that is armed (dismiss or animation) fires.  The
\* host's calls and the user's clicks are not forced.
NextLive ==
  \/ Notify(MaxNotifyLive)
  \/ \E t \in tasks : TaskStart(t)
  \/ \E t \in tasks : LoadFinished(t, FALSE)
  \/ \E t \in tasks : Settle(t)
  \/ \E n \in Ids : Timeout(n)
  \/ \E n \in Ids : ApiClose(n)
  \/ \E n \in Ids : IpcClose(n)
  \/ \E n \in Ids, closes \in BOOLEAN : IpcClick(n, closes)
  \/ Tick

SpecLive ==
  /\ InitTraffic
  /\ [][NextLive]_vars
  /\ WF_vars(\E t \in tasks : TaskStart(t))
  /\ WF_vars(\E t \in tasks : LoadFinished(t, FALSE))
  /\ WF_vars(\E t \in tasks : Settle(t))
  /\ WF_vars(\E n \in Ids : Timeout(n))
  /\ WF_vars(Tick)

\* The host sets displayTime, in the configuration and per notification;
\* notifications are closed by their dismiss timers only.
NextDisplayTime ==
  \/ \E own \in PayloadDisplayTimes : NotifyPayload(MaxNotify, own)
  \/ \E d \in ConfigDisplayTimes : SetDisplayTime(d)
  \/ \E t \in tasks : TaskStart(t)
  \/ \E t \in tasks : LoadFinished(t, FALSE)
  \/ \E t \in tasks : Settle(t)
  \/ \E n \in Ids : Timeout(n)
  \/ Tick

SpecDisplayTime == Init /\ [][NextDisplayTime]_vars

\* --------------------------------------------------------------- claims
Destroyed == {n \in Ids : win[n].st = "destroyed"}

\* notification n has been in the Active Set
HasBeenActive(n) == win[n].st \in {"tracked", "visible", "closing", "destroyed"}

\* window n is displayed at the coordinate of slot i
AtSlot(n, i) == win[n].y = SlotY(config, i)

\* C1: the first notify returns 1 and every later notify returns one more
\* than the previous one, whatever closes, closeAll and setConfig calls come
\* in between; so no id is returned twice.
C1_IdsCountFromOne ==
  \A i \in 1 .. Len(returned) : returned[i] = FirstID + (i - 1)

C1_Witness ==
  /\ Len(returned) = MaxNotify
  /\ closedAll
  /\ Destroyed # {}
  /\ config.height # DefaultHeight

\* C2: the Active Set never holds more than maxVisibleNotifications
\* notifications.
C2_ActiveWithinCap == Len(activeNotifications) <= config.maxVisibleNotifications

C2_Witness ==
  /\ Len(activeNotifications) = config.maxVisibleNotifications
  /\ notificationQueue # <<>>
  /\ Destroyed # {}

\* C3: two notifications that both entered the Pending Queue become active
\* in the order of their notify calls (ids are handed out in call order):
\* when one of them becomes active, every one notified before it has
\* already been active.
C3_PendingShownInNotifyOrder ==
  [][\A y \in queuedOnce :
       (y \notin Range(activeNotifications) /\ y \in Range(activeNotifications'))
         => \A x \in queuedOnce : x < y => HasBeenActive(x)]_vars

\* C4: a close removes exactly the closed notification from the Active Set
\* and, when the Pending Queue is not empty, hands its head to the
\* serializer; a notification handed over this way goes on to the Active
\* Set, it does not come back to the Pending Queue.
C4_CloseBackfillsOne ==
  /\ [][\A n \in Range(activeNotifications) :
          n \notin Range(activeNotifications')
            => /\ activeNotifications' =
                    Splice(activeNotifications, IndexOf(activeNotifications, n))
               /\ notificationQueue # <<>>
                    => /\ notificationQueue' = Tail(notificationQueue)
                       /\ \E t \in tasks' \cup Range(queue') :
                            t.id = Head(notificationQueue)]_vars
  /\ [][\A x \in queuedOnce :
          x \notin Range(notificationQueue) => x \notin Range(notificationQueue')]_vars

\* C5: after a close, once no reposition animation is left, the active
\* notification at index i is displayed at anchorY - totalHeight * (i + 1),
\* and a further reflow starts no animation.
C5_ReflowEndsOnSlots ==
  (Destroyed # {} /\ anims = <<>>)
    => /\ \A i \in 0 .. Len(activeNotifications) - 1 :
            AtSlot(activeNotifications[i + 1], i)
       /\ MoveOneDown(0, activeNotifications, config) = <<>>

\* C6: at most one task is in flight at any time, and a task is started
\* only when no task submitted before it is still waiting.
C6_OneTaskInSubmissionOrder ==
  /\ [](Cardinality(tasks) <= 1)
  /\ [][\A t \in tasks' \ tasks :
          t.pc = "start" => \A j \in 1 .. Len(queue') : t.ticket < queue'[j].ticket]_vars

C6_Witness ==
  /\ \E t \in tasks : t.pc = "loading"
  /\ Len(queue) >= 2

\* C7: when closeAll() returns, the Active Set, the Pending Queue and the
\* serializer's queue of waiting tasks are all empty.
C7_CloseAllEmptiesAll ==
  [][CloseAll => /\ activeNotifications' = <<>>
                 /\ notificationQueue' = <<>>
                 /\ queue' = <<>>]_vars

\* C8: after a closeAll() that found no show task in flight, a window that
\* finishes loading into the empty Active Set becomes active at index 0 at
\* (anchorX - totalWidth, anchorY - totalHeight), as the first notification
\* after setup does.
C8_FreshAfterCloseAll ==
  [][\A t \in tasks :
       (closedAll /\ t.pc = "loading" /\ t \notin tasks'
          /\ activeNotifications = <<>>)
         => /\ activeNotifications' = <<t.id>>
            /\ win'[t.id].x = FirstPos(config).x
            /\ win'[t.id].y = FirstPos(config).y]_vars

\* C9: with cap 2 and exactly three notifications 1, 2, 3: once their show
\* tasks have run and nothing was closed, 1 and 2 are active at slots 0 and
\* 1 and 3 is pending; once 1 alone was closed while 3 was pending and all
\* tasks and animations have finished, the Active Set is <<2, 3>> at slots 0
\* and 1 and the Pending Queue is empty.
C9_ScenarioCapTwo ==
  (/\ config.maxVisibleNotifications = 2
   /\ latestID = 4
   /\ tasks = {} /\ queue = <<>> /\ anims = <<>>)
    => /\ Destroyed = {}
         => /\ activeNotifications = <<1, 2>>
            /\ AtSlot(1, 0) /\ AtSlot(2, 1)
            /\ notificationQueue = <<3>>
       /\ (Destroyed = {1} /\ 3 \in queuedOnce)
         => /\ activeNotifications = <<2, 3>>
            /\ AtSlot(2, 0) /\ AtSlot(3, 1)
            /\ notificationQueue = <<>>

\* C10: a task that throws or rejects counts as complete, so the serializer
\* is Running only while a task is in flight: it starts the next waiting
\* task or goes back to Idle.
C10_RunningOnlyWhileInFlight == running => tasks # {}

\* C11: when notify returns, the show task of the new notification has not
\* run: it waits in the serializer's queue or is in flight before its first
\* reaction, also when the serializer was idle at the call; the notification
\* is in neither the Active Set nor the Pending Queue and has no window.
C11_NotifyReturnsBeforeShow ==
  [][latestID' # latestID
       => /\ win'[latestID].st = "none"
          /\ latestID \notin Range(activeNotifications')
          /\ latestID \notin Range(notificationQueue')
          /\ \/ \E t \in tasks' : t.id = latestID /\ t.pc = "start"
             \/ \E j \in 1 .. Len(queue') : queue'[j].id = latestID]_vars

C11_Witness ==
  /\ returned = <<FirstID>>
  /\ tasks = {InFlight([ticket |-> 1, id |-> FirstID], "start")}
  /\ win[FirstID].st = "none"

\* C12: whenever the Pending Queue is not empty, the Active Set holds
\* exactly maxVisibleNotifications notifications.
C12_PendingOnlyAtCapacity ==
  notificationQueue # <<>>
    => Len(activeNotifications) = config.maxVisibleNotifications

\* C13: while a reposition animation is in progress no show task is between
\* creating its window and revealing it, and all reposition animations in
\* progress were started by the same close event.
C13_ReflowIsSerializerTask ==
  \A i \in 1 .. Len(anims) :
    /\ \A t \in tasks : t.pc # "loading"
    /\ \A j \in 1 .. Len(anims) : anims[j].by = anims[i].by

\* C14: a dismiss timer is armed only for a notification of the Active Set:
\* a close by the API close function, by the user or by closeAll cancels it.
C14_TimerOnlyWhileActive ==
  \A n \in timers : n \in Range(activeNotifications)

\* C15: onCloseFunc of a notification is called at most once, whatever
\* timeout, API and user closes follow each other; the dismiss timer of a
\* window that is already destroyed fires without changing the Active Set,
\* the Pending Queue, the serializer's queue or the number of onCloseFunc
\* calls.
C15_CloseIsIdempotent ==
  /\ [](\A n \in Ids : onCloseCalls[n] <= 1)
  /\ [][\A n \in Ids :
          (win[n].st = "destroyed" /\ n \in timers /\ n \notin timers')
            => UNCHANGED <<activeNotifications, notificationQueue, queue,
                           onCloseCalls>>]_vars

\* the user has closed n; n's dismiss timer is still armed and will call
\* the close function for the destroyed window
C15_Witness ==
  \E n \in Ids :
    /\ Destroyed = {n}
    /\ onCloseCalls[n] = 1
    /\ lastEvent = "close"
    /\ n \in timers

\* C16: closeAll() drops the waiting tasks and leaves the tasks in flight
\* alone; the window of a show task that was in flight at closeAll() and
\* whose onShowFunc does not throw joins the Active Set when it has loaded,
\* and its task goes on to its completion reaction.
C16_ClearSparesTaskInFlight ==
  /\ [][CloseAll => (tasks' = tasks /\ queue' = <<>>)]_vars
  /\ [][\A t \in tasks :
          (/\ t.id \in survivors
           /\ t.pc = "loading"
           /\ t \notin tasks'
           /\ win'[t.id].st # "tracked")
            => /\ t.id \in Range(activeNotifications')
               /\ InFlight(t, "done") \in tasks']_vars

\* C17: after setup and after every setConfig, totalHeight is height +
\* padding and maxVisibleNotifications is the number of slots of that
\* height that fit the display's work area, at most 7.
C17_ConfigDerivedFields ==
  /\ config.totalHeight = config.height + config.padding
  /\ config.maxVisibleNotifications =
       MaxVisible(config.lowerRightCorner.y, config.totalHeight)

\* C18 (as claimed): a dismiss timer is armed with the notification's own
\* displayTime when the notification object has one, otherwise with
\* config.displayTime as it is when the window is shown; when the timer of
\* an active notification fires, the notification is closed and its
\* onCloseFunc is called with "timeout".
C18_TimerUsesOwnElseConfig ==
  /\ [][\A n \in Ids :
          (n \notin timers /\ n \in timers')
            => timeoutMs'[n] = IF notifications[n] # Null
                               THEN notifications[n]
                               ELSE config.displayTime]_vars
  /\ [][\A n \in timers \cap Range(activeNotifications) :
          n \notin timers'
            => /\ win'[n].st = "destroyed"
               /\ onCloseCalls'[n] = onCloseCalls[n] + 1
               /\ lastEvent' = "timeout"]_vars

\* C18 (amended): the same, where the notification's own displayTime
\* counts only when it is not 0; a displayTime of 0 is treated as absent.
C18_TimerUsesNonZeroOwnElseConfig ==
  /\ [][\A n \in Ids :
          (n \notin timers /\ n \in timers')
            => timeoutMs'[n] = IF notifications[n] \notin {Null, 0}
                               THEN notifications[n]
                               ELSE config.displayTime]_vars
  /\ [][\A n \in timers \cap Range(activeNotifications) :
          n \notin timers'
            => /\ win'[n].st = "destroyed"
               /\ onCloseCalls'[n] = onCloseCalls[n] + 1
               /\ lastEvent' = "timeout"]_vars

C18_Witness ==
  /\ config.displayTime # DefaultDisplayTime
  /\ \E n \in Ids :
       /\ notifications[n] = Null
       /\ timeoutMs[n] = config.displayTime
       /\ win[n].st = "destroyed"
       /\ lastEvent = "timeout"
  /\ \E n \in Ids :
       /\ notifications[n] \notin {Null, 0}
       /\ timeoutMs[n] = notifications[n]

\* how often x occurs in sequence s
Occurrences(s, x) == Cardinality({i \in 1 .. Len(s) : s[i] = x})

\* the places that hold notification n: show tasks that wait or have not
\* yet handed n on, the Pending Queue, the Active Set, closed
Places(n) ==
  Cardinality({j \in 1 .. Len(queue) : queue[j].id = n})
    + Cardinality({t \in tasks : t.id = n /\ t.pc \in {"start", "loading"}})
    + Occurrences(notificationQueue, n)
    + Occurrences(activeNotifications, n)
    + (IF win[n].st = "destroyed" THEN 1 ELSE 0)

\* C19: without closeAll and without faults, every notification notify
\* accepted is in exactly one place: a show task that waits or has not yet
\* handed it on, the Pending Queue, the Active Set, or closed; and a window
\* is created only for a notification that never had one.
C19_EachNotificationInOnePlace ==
  /\ [](\A n \in Ids : Places(n) = IF n < latestID THEN 1 ELSE 0)
  /\ [][\A n \in Ids :
          (win[n].st # "loading" /\ win'[n].st = "loading")
            => win[n].st = "none"]_vars

C19_Witness ==
  /\ queuedOnce # {}
  /\ notificationQueue # <<>>
  /\ activeNotifications # <<>>
  /\ Destroyed # {}
  /\ \E t \in tasks : t.pc = "loading" /\ t.id \in queuedOnce

\* C20: after finitely many notify calls, with no closeAll and no fault,
\* every notification notify accepted becomes active, and from some point
\* on the Active Set, the Pending Queue and the serializer's queue are
\* empty and the serializer is idle.
C20_AllShownThenQuiet ==
  /\ \A n \in Ids : (n < latestID) ~> HasBeenActive(n)
  /\ <>[](/\ activeNotifications = <<>>
          /\ notificationQueue = <<>>
          /\ queue = <<>>
          /\ tasks = {}
          /\ ~running)

C20_Witness ==
  /\ latestID = MaxNotifyLive + 1
  /\ queuedOnce # {}
  /\ \A n \in FirstID .. MaxNotifyLive : win[n].st = "destroyed"
  /\ activeNotifications = <<>> /\ notificationQueue = <<>>
  /\ queue = <<>> /\ tasks = {} /\ ~running

====
